---- MODULE Spec2Model ----
(***************************************************************************)
(* PDV backend (netlify/functions/api.js): cash-register sessions, sales,  *)
(* manual sales, withdrawals and the closing reconciliation, as a state    *)
(* machine over the five PostgreSQL tables.                                *)
(*                                                                         *)
(* Every handler is split at its await points: one action per SQL          *)
(* statement (together with the synchronous code that follows it up to     *)
(* the next await).  Monetary amounts are DECIMAL(10,2) columns and are    *)
(* represented in cents.  Identifiers produced by gerarUUID are            *)
(* represented by per-table sequence numbers.                              *)
(***************************************************************************)
EXTENDS Integers, FiniteSets, Sequences, TLC

VARIABLES
  caixa_abertura,    \* table caixa_abertura   (sessions)
  vendas,            \* table vendas           (sales ingested by the webhook)
  retiradas,         \* table retiradas        (withdrawals)
  caixa_fechamento,  \* table caixa_fechamento (closing summaries)
  vendas_manuais,    \* table vendas_manuais   (manual sales)
  uuid,              \* identifiers generated so far, per table
  clients,           \* pooled clients currently checked out
  pc,                \* per request slot: position in its handler
  req,               \* per request slot: the request being served
  loc,               \* per request slot: the handler's local variables
  res,               \* per request slot: the response sent (status 0: none yet)
  pre,               \* per request slot: the tables when the request arrived
  falha,             \* per request slot: a database failure hit this request
  esquema            \* the five tables exist (criarTabelas has committed)

vars == <<caixa_abertura, vendas, retiradas, caixa_fechamento, vendas_manuais,
          uuid, clients, pc, req, loc, res, pre, falha, esquema>>

tabelas == <<caixa_abertura, vendas, retiradas, caixa_fechamento, vendas_manuais>>

-----------------------------------------------------------------------------
(* Bounds of the model *)

MaxLinhas == 5
MaxLinhasConc == 3
MaxLinhasPool == 2
MaxIds == 2
NumProcs == 2

(* Pool size, new Pool({ max: 20 }) *)
PoolMax == 20

Procs == 1..NumProcs

-----------------------------------------------------------------------------
(* Values *)

\* JavaScript undefined / SQL NULL for a numeric field (outside the amounts).
NULL == 0 - 1
\* JavaScript undefined / SQL NULL for a text field.
NULLT == "NULL"
\* JSON null in a text field of a request body.
NULLJ == "JSON null"

ABERTO == "ABERTO"
FECHADO == "FECHADO"
DINHEIRO == "DINHEIRO"
PENDENTE == "PENDENTE"

\* Request inputs (amounts in cents).
ValoresIniciais == {10000}
ValoresVenda == {5000}
ValoresManual == {3000}
ValoresRetirada == {2000}
TiposManual == {DINHEIRO, "CARTAO"}
TiposVendaPut == {DINHEIRO, PENDENTE}

\* `!x` of JavaScript for a numeric field and for a text field.
Falsy(x) == x = NULL \/ x = 0
FalsyT(x) == x = NULLT \/ x = NULLJ \/ x = ""

\* `x || d` of JavaScript for a text field.
OrT(x, d) == IF FalsyT(x) THEN d ELSE x

-----------------------------------------------------------------------------
(* Requests *)

\* The products field of a webhook payload: absent, a non-list value, or a list.
ProdutosAusente == [tipo |-> "ausente", itens |-> <<>>]
ProdutosTexto == [tipo |-> "texto", itens |-> <<>>]
ProdutosVazio == [tipo |-> "lista", itens |-> <<>>]
ProdutosUm == [tipo |-> "lista", itens |-> <<"pizza">>]

SemPedido == [valor_total |-> NULL, produtos |-> ProdutosAusente, tipo_pagamento |-> NULLT,
              tipo_pedido |-> NULLT, data_hora_pedido |-> NULLT]

SemReq == [op |-> "nenhum", valor |-> NULL, tipo_pagamento |-> NULLT, id |-> NULL,
           pedido |-> SemPedido]

\* Webhook payloads: the valid ones, with the optional fields absent (the order
\* timestamp absent, null, a text that does not parse, or a date) and with
\* them present, and the ones with a
\* falsy total or with a products field that is absent, not a list, or an
\* empty list.
Pedidos ==
  { [SemPedido EXCEPT !.valor_total = v, !.produtos = ProdutosUm, !.data_hora_pedido = d] :
      v \in ValoresVenda, d \in {NULLT, NULLJ, "", "ontem", "2024-01-01T12:00:00Z"} }
  \cup
  { [SemPedido EXCEPT !.valor_total = v, !.produtos = ProdutosUm, !.tipo_pagamento = DINHEIRO,
                      !.tipo_pedido = "delivery",
                      !.data_hora_pedido = "2024-01-01T12:00:00Z"] : v \in ValoresVenda }
  \cup
  { [SemPedido EXCEPT !.valor_total = v, !.produtos = ProdutosUm,
                      !.data_hora_pedido = "2024-01-01T12:00:00Z"] : v \in {NULL, 0} }
  \cup
  { [SemPedido EXCEPT !.valor_total = v, !.produtos = ps,
                      !.data_hora_pedido = "2024-01-01T12:00:00Z"] :
      v \in ValoresVenda, ps \in {ProdutosAusente, ProdutosTexto, ProdutosVazio} }

\* Identifiers a request can name: 0 is the identifier of no row.
IdsCaixa == 0..MaxIds
IdsVenda == 0..MaxIds
IdsManual == 0..MaxIds

Requests ==
  { [SemReq EXCEPT !.op = "abrir", !.valor = v] : v \in ValoresIniciais \cup {NULL} }
  \cup { [SemReq EXCEPT !.op = "fechar", !.id = c] : c \in IdsCaixa }
  \cup { [SemReq EXCEPT !.op = "retirada", !.valor = v, !.id = c] :
           v \in ValoresRetirada, c \in IdsCaixa }
  \cup { [SemReq EXCEPT !.op = "venda_put", !.tipo_pagamento = t, !.id = i] :
           t \in TiposVendaPut, i \in IdsVenda }
  \cup { [SemReq EXCEPT !.op = "manual", !.tipo_pagamento = t, !.valor = v, !.id = c] :
           t \in TiposManual, v \in ValoresManual, c \in IdsCaixa }
  \cup { [SemReq EXCEPT !.op = "manual", !.tipo_pagamento = t, !.valor = v, !.id = c] :
           t \in {NULLT, NULLJ, ""}, v \in ValoresManual, c \in {1} }
  \cup { [SemReq EXCEPT !.op = "manual", !.tipo_pagamento = t, !.valor = v, !.id = c] :
           t \in {DINHEIRO}, v \in {NULL, 0}, c \in {1} }
  \cup { [SemReq EXCEPT !.op = "manual", !.tipo_pagamento = t, !.valor = v, !.id = c] :
           t \in {DINHEIRO}, v \in ValoresManual, c \in {NULL} }
  \cup { [SemReq EXCEPT !.op = "manual_del", !.id = i] : i \in IdsManual }
  \cup { [SemReq EXCEPT !.op = "webhook", !.pedido = pd] : pd \in Pedidos }
  \cup { [SemReq EXCEPT !.op = "status"] }

-----------------------------------------------------------------------------
(* Tables *)

BD == [caixa_abertura |-> caixa_abertura, vendas |-> vendas, retiradas |-> retiradas,
       caixa_fechamento |-> caixa_fechamento, vendas_manuais |-> vendas_manuais]

BDVazio == [caixa_abertura |-> {}, vendas |-> {}, retiradas |-> {},
            caixa_fechamento |-> {}, vendas_manuais |-> {}]

SemUuid == [caixa_abertura |-> 0, vendas |-> 0, retiradas |-> 0,
            caixa_fechamento |-> 0, vendas_manuais |-> 0]

\* Mutant: the status filter is missing.
Abertos_semStatus(caixas) == caixas

\* SELECT * FROM caixa_abertura WHERE status = 'ABERTO'
Abertos(caixas) == { c \in caixas : c.status = ABERTO }

\* Mutant: the rows are ordered by ascending opening timestamp.
MaisRecente_maisAntigo(caixas) ==
  { c \in caixas : \A d \in caixas : c.data_abertura <= d.data_abertura }

\* ... ORDER BY data_abertura DESC LIMIT 1
MaisRecente(caixas) ==
  { c \in caixas : \A d \in caixas : d.data_abertura <= c.data_abertura }

\* SELECT * FROM <table> WHERE id = $1
PorId(tabela, id) == { r \in tabela : r.id = id }

\* Mutant: the rows of every session are fetched.
DoCaixa_semFiltro(tabela, id) == tabela

\* SELECT * FROM <table> WHERE caixa_abertura_id = $1
DoCaixa(tabela, id) == { r \in tabela : r.caixa_abertura_id = id }

\* rows.reduce((total, r) => total + parseFloat(r[campo]), 0)
RECURSIVE Soma(_, _)
Soma(rows, campo) ==
  IF rows = {} THEN 0
  ELSE LET r == CHOOSE x \in rows : TRUE
       IN r[campo] + Soma(rows \ {r}, campo)

\* Mutant: every payment type counts as cash.
EmDinheiro_todos(rows) == rows

\* rows.filter(v => v.tipo_pagamento === 'DINHEIRO')
EmDinheiro(rows) == { v \in rows : v.tipo_pagamento = DINHEIRO }

-----------------------------------------------------------------------------
(* Reconciliation computed by POST /caixa/fechar from the rows it fetched *)

totalVendasSistema(vs) == Soma(vs, "valor_total")
totalVendasManuais(ms) == Soma(ms, "valor")
totalVendas(vs, ms) == totalVendasSistema(vs) + totalVendasManuais(ms)
totalRetiradas(rs) == Soma(rs, "valor")
vendasDinheiroSistema(vs) == Soma(EmDinheiro(vs), "valor_total")
vendasDinheiroManuais(ms) == Soma(EmDinheiro(ms), "valor")
totalDinheiro(vs, ms) == vendasDinheiroSistema(vs) + vendasDinheiroManuais(ms)
saldoFinal(caixa, vs, ms, rs) == caixa.valor_inicial + totalDinheiro(vs, ms) - totalRetiradas(rs)

\* The row of the INSERT INTO caixa_fechamento.
Fechamento(id, caixa, vs, ms, rs, caixaId) ==
  [id |-> id,
   valor_abertura |-> caixa.valor_inicial,
   total_vendas |-> totalVendas(vs, ms),
   retiradas |-> totalRetiradas(rs),
   saldo_final |-> saldoFinal(caixa, vs, ms, rs),
   caixa_abertura_id |-> caixaId]

-----------------------------------------------------------------------------
(* Webhook payload normalisation *)

\* The texts of the requests that Date parses.
DatasValidas == {"2024-01-01T12:00:00Z"}

\* new Date(x): the epoch for null, the date for a text that parses, and an
\* Invalid Date for undefined and for any other text ("", "ontem").
NovaData(x) ==
  IF x = NULLJ THEN "1970-01-01T00:00:00.000Z"
  ELSE IF x \in DatasValidas THEN x
  ELSE "Invalid Date"

\* new Date(pedido.data_hora_pedido) || new Date(): a Date object is truthy,
\* the Invalid Date included, so the right operand is never taken.
DataVenda(pedido) == NovaData(pedido.data_hora_pedido)

\* The payload check of the webhook.
PedidoInvalido(pedido) ==
  \/ Falsy(pedido.valor_total)
  \/ pedido.produtos.tipo = "ausente"     \* !pedido.produtos
  \/ pedido.produtos.tipo # "lista"       \* !Array.isArray(pedido.produtos)

dadosPedido(pedido) ==
  [tipo_pedido |-> OrT(pedido.tipo_pedido, "outro"),
   valor_total |-> pedido.valor_total,
   produtos |-> pedido.produtos.itens]

\* The row of the INSERT INTO vendas.
Venda(id, pedido, caixaId) ==
  [id |-> id,
   dados_pedido |-> dadosPedido(pedido),
   tipo_pagamento |-> OrT(pedido.tipo_pagamento, PENDENTE),
   valor_total |-> pedido.valor_total,
   caixa_abertura_id |-> caixaId]

-----------------------------------------------------------------------------
(* Handler state *)

SemTx == [fechamentos |-> {}, fechados |-> {}]

SemLoc == [caixa |-> {}, vendas |-> {}, manuais |-> {}, retiradas |-> {},
           fechamento |-> {}, tx |-> SemTx, stmt |-> 0]

SemRes == [status |-> 0, message |-> "", data |-> {}]

Resposta(status, message, data) == [status |-> status, message |-> message, data |-> data]

Erro500 == Resposta(500, "Erro interno", {})

\* Mutant: an unknown identifier is answered 400, as POST /vendas/manuais does.
NaoEncontrado_400(message) == Resposta(400, message, {})

\* return res.status(404).json({ success: false, message })
NaoEncontrado(message) == Resposta(404, message, {})

Init ==
  /\ caixa_abertura = {}
  /\ vendas = {}
  /\ retiradas = {}
  /\ caixa_fechamento = {}
  /\ vendas_manuais = {}
  /\ uuid = SemUuid
  /\ clients = 0
  /\ pc = [p \in Procs |-> "idle"]
  /\ req = [p \in Procs |-> SemReq]
  /\ loc = [p \in Procs |-> SemLoc]
  /\ res = [p \in Procs |-> SemRes]
  /\ pre = [p \in Procs |-> BDVazio]
  /\ falha = [p \in Procs |-> FALSE]
  /\ esquema = TRUE

\* The handler of slot p moves to step `passo`.
Vai(p, passo) == pc' = [pc EXCEPT ![p] = passo]

\* res.status(...).json(...) and the handler moves to step `passo`.
Responde(p, r, passo) ==
  /\ res' = [res EXCEPT ![p] = r]
  /\ Vai(p, passo)

\* A statement fails (connection lost, server error): the handler's catch block
\* answers 500.
Falha500(p, passo) ==
  /\ falha' = [falha EXCEPT ![p] = TRUE]
  /\ Responde(p, Erro500, passo)

\* A statement names a table that does not exist yet (the tables exist from
\* the COMMIT of criarTabelas on and are never dropped, so only the first
\* statement of a handler can meet this): the handler's catch block answers 500.
SemTabela(p, passo) ==
  /\ ~esquema
  /\ Responde(p, Erro500, passo)
  /\ UNCHANGED falha

\* The first statement of each handler; the handlers of GET /caixa/status and of
\* the webhook use pool.query, the others hold a pooled client.
PrimeiroPasso(op) ==
  CASE op = "status" -> "status_select"
    [] op = "webhook" -> "webhook_select"
    [] op = "abrir" -> "abrir_select"
    [] op = "retirada" -> "retirada_insert"
    [] op = "venda_put" -> "venda_update"
    [] op = "fechar" -> "fechar_begin"
    [] op = "manual" -> "manual_select"
    [] op = "manual_del" -> "manual_delete"

\* Identifiers generated so far, over all tables.
Gerados ==
  uuid.caixa_abertura + uuid.vendas + uuid.retiradas + uuid.caixa_fechamento
  + uuid.vendas_manuais

\* The model's bound: requests arrive only while fewer than MaxLinhas
\* identifiers have been generated.
DentroDoLimite == Gerados < MaxLinhas

\* gerarUUID(): the next identifier for table t (a record field name of uuid).
gerarUUID(t) == uuid[t] + 1

-----------------------------------------------------------------------------
(* A request arrives at slot p and its handler starts *)

Receber(p) ==
  /\ pc[p] = "idle"
  /\ DentroDoLimite
  /\ \E r \in Requests :
       /\ req' = [req EXCEPT ![p] = r]
       /\ Vai(p, IF r.op \in {"status", "webhook"} THEN PrimeiroPasso(r.op) ELSE "connect")
  /\ pre' = [pre EXCEPT ![p] = BD]
  /\ res' = [res EXCEPT ![p] = SemRes]
  /\ loc' = [loc EXCEPT ![p] = SemLoc]
  /\ falha' = [falha EXCEPT ![p] = FALSE]
  /\ UNCHANGED <<tabelas, esquema, uuid, clients>>

\* const client = await pool.connect(), before the try block: a client is
\* checked out, or the call rejects (no connection, or no client free within
\* connectionTimeoutMillis) and the handler ends with no client and no response.
Connect(p) ==
  /\ pc[p] = "connect"
  /\ \/ /\ clients < PoolMax
        /\ clients' = clients + 1
        /\ Vai(p, PrimeiroPasso(req[p].op))
        /\ UNCHANGED falha
     \/ /\ falha' = [falha EXCEPT ![p] = TRUE]
        /\ Vai(p, "fim")
        /\ UNCHANGED clients
  /\ UNCHANGED <<tabelas, esquema, uuid, req, loc, res, pre>>

\* finally { client.release() }
Release(p) ==
  /\ pc[p] = "release"
  /\ clients' = clients - 1
  /\ Vai(p, "fim")
  /\ UNCHANGED <<tabelas, esquema, uuid, req, loc, res, pre, falha>>

\* The handler has returned; the slot is free for the next request.
Concluir(p) ==
  /\ pc[p] = "fim"
  /\ pc' = [pc EXCEPT ![p] = "idle"]
  /\ req' = [req EXCEPT ![p] = SemReq]
  /\ loc' = [loc EXCEPT ![p] = SemLoc]
  /\ res' = [res EXCEPT ![p] = SemRes]
  /\ pre' = [pre EXCEPT ![p] = BDVazio]
  /\ falha' = [falha EXCEPT ![p] = FALSE]
  /\ UNCHANGED <<tabelas, esquema, uuid, clients>>

-----------------------------------------------------------------------------
(* testarConexao, called by GET /health and by initDB when the module loads; *)
(* initDB goes on to criarTabelas when the test succeeds                     *)

\* A GET /health request arrives at slot p.
ReceberHealth(p) ==
  /\ pc[p] = "idle"
  /\ req' = [req EXCEPT ![p] = [SemReq EXCEPT !.op = "health"]]
  /\ Vai(p, "testar_connect")
  /\ pre' = [pre EXCEPT ![p] = BD]
  /\ res' = [res EXCEPT ![p] = SemRes]
  /\ loc' = [loc EXCEPT ![p] = SemLoc]
  /\ falha' = [falha EXCEPT ![p] = FALSE]
  /\ UNCHANGED <<tabelas, esquema, uuid, clients>>

\* res.status(200).json({ status: 'online', database: ... })
Saude(dbConnected) ==
  Resposta(200, "", {[status |-> "online",
                      database |-> IF dbConnected THEN "connected" ELSE "disconnected"]})

\* testarConexao returns dbConnected to its caller: GET /health answers, initDB
\* calls criarTabelas when it is true and ends otherwise.
RetornaTeste(p, dbConnected) ==
  IF req[p].op = "health"
    THEN Responde(p, Saude(dbConnected), "fim")
    ELSE Vai(p, IF dbConnected THEN "criar_connect" ELSE "fim") /\ UNCHANGED res

\* try { const client = await pool.connect() ... } catch { return false }
TestarConexaoConnect(p) ==
  /\ pc[p] = "testar_connect"
  /\ \/ /\ clients < PoolMax
        /\ clients' = clients + 1
        /\ Vai(p, "testar_query")
        /\ UNCHANGED <<res, falha>>
     \/ /\ falha' = [falha EXCEPT ![p] = TRUE]
        /\ RetornaTeste(p, FALSE)
        /\ UNCHANGED clients
  /\ UNCHANGED <<tabelas, esquema, uuid, req, loc, pre>>

\* await client.query(...); client.release(); return true -- inside the try,
\* with no finally: when the query throws the catch block returns false and
\* the client is never released.
TestarConexaoQuery(p) ==
  /\ pc[p] = "testar_query"
  /\ \/ /\ clients' = clients - 1
        /\ RetornaTeste(p, TRUE)
        /\ UNCHANGED falha
     \/ /\ falha' = [falha EXCEPT ![p] = TRUE]
        /\ RetornaTeste(p, FALSE)
        /\ UNCHANGED clients
  /\ UNCHANGED <<tabelas, esquema, uuid, req, loc, pre>>

\* criarTabelas: const client = await pool.connect(), before its try block
CriarTabelasConnect(p) ==
  /\ pc[p] = "criar_connect"
  /\ \/ /\ clients < PoolMax
        /\ clients' = clients + 1
        /\ Vai(p, "criar_tabelas")
        /\ UNCHANGED falha
     \/ /\ falha' = [falha EXCEPT ![p] = TRUE]
        /\ Vai(p, "fim")
        /\ UNCHANGED clients
  /\ UNCHANGED <<tabelas, esquema, uuid, req, loc, res, pre>>

\* The awaited statements of the try block of criarTabelas: BEGIN, five
\* CREATE TABLE IF NOT EXISTS, seven CREATE INDEX IF NOT EXISTS, COMMIT.
NumComandos == 14

\* One statement of criarTabelas (loc[p].stmt counts the ones already done);
\* the rows of existing tables are not touched.  A statement that throws leads
\* to the catch block.  The tables exist for the other connections from the
\* COMMIT on; after the COMMIT the finally block releases the client and
\* initDB ends.
CriarTabelas(p) ==
  /\ pc[p] = "criar_tabelas"
  /\ \/ /\ falha' = [falha EXCEPT ![p] = TRUE]
        /\ Vai(p, "criar_rollback")
        /\ UNCHANGED <<esquema, clients, loc>>
     \/ /\ loc[p].stmt + 1 < NumComandos
        /\ loc' = [loc EXCEPT ![p].stmt = @ + 1]
        /\ UNCHANGED <<esquema, clients, pc, falha>>
     \/ /\ loc[p].stmt + 1 = NumComandos
        /\ esquema' = TRUE
        /\ clients' = clients - 1
        /\ loc' = [loc EXCEPT ![p].stmt = @ + 1]
        /\ Vai(p, "fim")
        /\ UNCHANGED falha
  /\ UNCHANGED <<tabelas, uuid, req, res, pre>>

\* catch (error) { await client.query('ROLLBACK'); throw error } finally
\* { client.release() }: whether the ROLLBACK succeeds or throws, the client
\* is released and an error reaches the catch block of initDB, which logs it.
CriarTabelasRollback(p) ==
  /\ pc[p] = "criar_rollback"
  /\ clients' = clients - 1
  /\ Vai(p, "fim")
  /\ UNCHANGED <<tabelas, esquema, uuid, req, loc, res, pre, falha>>

-----------------------------------------------------------------------------
(* GET /caixa/status: pool.query, no client held *)

\* res.json({ caixaAberto: result.rows.length > 0, caixaAtual: result.rows[0] || null })
\* (caixaAtual is the set of the rows returned: empty for null)
StatusCaixa(rows) == Resposta(200, "", {[caixaAberto |-> rows # {}, caixaAtual |-> rows]})

\* SELECT * FROM caixa_abertura WHERE status = 'ABERTO' ORDER BY data_abertura DESC LIMIT 1
StatusSelect(p) ==
  /\ pc[p] = "status_select"
  /\ \/ Falha500(p, "fim")
     \/ SemTabela(p, "fim")
     \/ /\ esquema
        /\ Abertos(caixa_abertura) = {}
        /\ Responde(p, StatusCaixa({}), "fim")
        /\ UNCHANGED falha
     \/ /\ esquema
        /\ \E c \in MaisRecente(Abertos(caixa_abertura)) : Responde(p, StatusCaixa({c}), "fim")
        /\ UNCHANGED falha
  /\ UNCHANGED <<tabelas, esquema, uuid, clients, req, loc, pre>>

-----------------------------------------------------------------------------
(* POST /caixa/abrir *)

\* Mutant: the opening amount of the request is not the one stored.
Caixa_semValor(id, valor_inicial) ==
  [id |-> id, valor_inicial |-> 0, status |-> ABERTO,
   data_abertura |-> Cardinality(caixa_abertura) + 1]

\* The row of the INSERT INTO caixa_abertura; data_abertura (DEFAULT NOW()) is
\* the position of the insert in time.
Caixa(id, valor_inicial) ==
  [id |-> id, valor_inicial |-> valor_inicial, status |-> ABERTO,
   data_abertura |-> Cardinality(caixa_abertura) + 1]

\* Mutant: the open-session check is skipped.
JaExisteCaixaAberto_semCheck(rows) == FALSE

\* if (caixaAberto.rows.length > 0) return res.status(400)
JaExisteCaixaAberto(rows) == rows # {}

\* SELECT * FROM caixa_abertura WHERE status = 'ABERTO' LIMIT 1, and the check.
AbrirSelect(p) ==
  /\ pc[p] = "abrir_select"
  /\ \/ Falha500(p, "release")
     \/ SemTabela(p, "release")
     \/ /\ esquema
        /\ JaExisteCaixaAberto(Abertos(caixa_abertura))
        /\ Responde(p, Resposta(400, "Ja existe um caixa aberto", {}), "release")
        /\ UNCHANGED falha
     \/ /\ esquema
        /\ ~JaExisteCaixaAberto(Abertos(caixa_abertura))
        /\ Vai(p, "abrir_insert")
        /\ UNCHANGED <<res, falha>>
  /\ UNCHANGED <<tabelas, esquema, uuid, clients, req, loc, pre>>

\* Mutant: the INSERT is refused when a session is OPEN at the time of the
\* INSERT, as if check and insert were one atomic step.
AbrirInsert_atomico(p) ==
  /\ pc[p] = "abrir_insert"
  /\ \/ /\ JaExisteCaixaAberto(Abertos(caixa_abertura)) \/ req[p].valor = NULL
        /\ Responde(p, Resposta(400, "Ja existe um caixa aberto", {}), "release")
        /\ UNCHANGED <<caixa_abertura, uuid, falha>>
     \/ /\ ~JaExisteCaixaAberto(Abertos(caixa_abertura))
        /\ req[p].valor # NULL
        /\ LET row == Caixa(gerarUUID("caixa_abertura"), req[p].valor)
           IN /\ caixa_abertura' = caixa_abertura \cup {row}
              /\ Responde(p, Resposta(200, "", {row}), "release")
        /\ uuid' = [uuid EXCEPT !.caixa_abertura = @ + 1]
        /\ UNCHANGED falha
  /\ UNCHANGED <<esquema, vendas, retiradas, caixa_fechamento, vendas_manuais, clients, req, loc, pre>>

\* INSERT INTO caixa_abertura ... RETURNING *  (valor_inicial is NOT NULL)
AbrirInsert(p) ==
  /\ pc[p] = "abrir_insert"
  /\ \/ /\ Falha500(p, "release")
        /\ UNCHANGED <<caixa_abertura, uuid>>
     \/ /\ req[p].valor = NULL
        /\ Responde(p, Erro500, "release")
        /\ UNCHANGED <<caixa_abertura, uuid, falha>>
     \/ /\ req[p].valor # NULL
        /\ LET row == Caixa(gerarUUID("caixa_abertura"), req[p].valor)
           IN /\ caixa_abertura' = caixa_abertura \cup {row}
              /\ Responde(p, Resposta(200, "", {row}), "release")
        /\ uuid' = [uuid EXCEPT !.caixa_abertura = @ + 1]
        /\ UNCHANGED falha
  /\ UNCHANGED <<esquema, vendas, retiradas, caixa_fechamento, vendas_manuais, clients, req, loc, pre>>

-----------------------------------------------------------------------------
(* POST /retiradas *)

\* The row of the INSERT INTO retiradas.
Retirada(id, valor, caixaId) == [id |-> id, valor |-> valor, caixa_abertura_id |-> caixaId]

\* Mutant: the insert is accepted only for a session with status OPEN.
ReferenciaValida_soAberto(caixaId) == Abertos(PorId(caixa_abertura, caixaId)) # {}

\* caixa_abertura_id REFERENCES caixa_abertura(id): NULL or an existing session.
ReferenciaValida(caixaId) == caixaId = NULL \/ PorId(caixa_abertura, caixaId) # {}

\* INSERT INTO retiradas ... RETURNING *
RetiradaInsert(p) ==
  /\ pc[p] = "retirada_insert"
  /\ \/ /\ Falha500(p, "release")
        /\ UNCHANGED <<retiradas, uuid>>
     \/ /\ SemTabela(p, "release")
        /\ UNCHANGED <<retiradas, uuid>>
     \/ /\ esquema
        /\ req[p].valor = NULL \/ ~ReferenciaValida(req[p].id)
        /\ Responde(p, Erro500, "release")
        /\ UNCHANGED <<retiradas, uuid, falha>>
     \/ /\ esquema
        /\ req[p].valor # NULL /\ ReferenciaValida(req[p].id)
        /\ LET row == Retirada(gerarUUID("retiradas"), req[p].valor, req[p].id)
           IN /\ retiradas' = retiradas \cup {row}
              /\ Responde(p, Resposta(200, "", {row}), "release")
        /\ uuid' = [uuid EXCEPT !.retiradas = @ + 1]
        /\ UNCHANGED falha
  /\ UNCHANGED <<esquema, caixa_abertura, vendas, caixa_fechamento, vendas_manuais, clients, req, loc, pre>>

-----------------------------------------------------------------------------
(* PUT /vendas/:id *)

\* Mutant: the UPDATE changes the payment type of every sale.
AtualizaVenda_semWhere(id, tipo) == { [v EXCEPT !.tipo_pagamento = tipo] : v \in vendas }

\* UPDATE vendas SET tipo_pagamento = $1 WHERE id = $2: the table afterwards.
AtualizaVenda(id, tipo) ==
  { IF v.id = id THEN [v EXCEPT !.tipo_pagamento = tipo] ELSE v : v \in vendas }

\* UPDATE vendas ... RETURNING *
VendaUpdate(p) ==
  /\ pc[p] = "venda_update"
  /\ \/ /\ Falha500(p, "release")
        /\ UNCHANGED vendas
     \/ /\ SemTabela(p, "release")
        /\ UNCHANGED vendas
     \/ /\ esquema
        /\ PorId(vendas, req[p].id) = {}
        /\ Responde(p, NaoEncontrado("Venda nao encontrada"), "release")
        /\ UNCHANGED <<vendas, falha>>
     \/ /\ esquema
        /\ PorId(vendas, req[p].id) # {}
        /\ vendas' = AtualizaVenda(req[p].id, req[p].tipo_pagamento)
        /\ Responde(p, Resposta(200, "", PorId(vendas', req[p].id)), "release")
        /\ UNCHANGED falha
  /\ UNCHANGED <<esquema, caixa_abertura, retiradas, caixa_fechamento, vendas_manuais, uuid, clients,
                 req, loc, pre>>

-----------------------------------------------------------------------------
(* POST /vendas/manuais *)

\* if (!tipo_pagamento || !valor || !caixa_abertura_id)
ManualInvalida(r) == FalsyT(r.tipo_pagamento) \/ Falsy(r.valor) \/ r.id = NULL

\* Mutant: the manual sale is stored without its owning session.
VendaManual_semCaixa(id, tipo, valor, caixaId) ==
  [id |-> id, tipo_pagamento |-> tipo, valor |-> valor, caixa_abertura_id |-> NULL]

\* The row of the INSERT INTO vendas_manuais.
VendaManual(id, tipo, valor, caixaId) ==
  [id |-> id, tipo_pagamento |-> tipo, valor |-> valor, caixa_abertura_id |-> caixaId]

\* The validation, then SELECT * FROM caixa_abertura WHERE id = $1 AND status = 'ABERTO'
ManualSelect(p) ==
  /\ pc[p] = "manual_select"
  /\ \/ /\ ManualInvalida(req[p])
        /\ Responde(p, Resposta(400, "campos obrigatorios", {}), "release")
        /\ UNCHANGED falha
     \/ /\ ~ManualInvalida(req[p])
        /\ \/ Falha500(p, "release")
           \/ SemTabela(p, "release")
           \/ /\ esquema
              /\ Abertos(PorId(caixa_abertura, req[p].id)) = {}
              /\ Responde(p, Resposta(400, "Caixa nao encontrado ou ja fechado", {}), "release")
              /\ UNCHANGED falha
           \/ /\ esquema
              /\ Abertos(PorId(caixa_abertura, req[p].id)) # {}
              /\ Vai(p, "manual_insert")
              /\ UNCHANGED <<res, falha>>
  /\ UNCHANGED <<tabelas, esquema, uuid, clients, req, loc, pre>>

\* INSERT INTO vendas_manuais ... RETURNING *  (the session selected by the
\* previous statement still exists: no statement deletes a session)
ManualInsert(p) ==
  /\ pc[p] = "manual_insert"
  /\ \/ /\ Falha500(p, "release")
        /\ UNCHANGED <<vendas_manuais, uuid>>
     \/ /\ LET row == VendaManual(gerarUUID("vendas_manuais"), req[p].tipo_pagamento,
                                  req[p].valor, req[p].id)
           IN /\ vendas_manuais' = vendas_manuais \cup {row}
              /\ Responde(p, Resposta(200, "", {row}), "release")
        /\ uuid' = [uuid EXCEPT !.vendas_manuais = @ + 1]
        /\ UNCHANGED falha
  /\ UNCHANGED <<esquema, caixa_abertura, vendas, retiradas, caixa_fechamento, clients, req, loc, pre>>

-----------------------------------------------------------------------------
(* DELETE /vendas/manuais/:id *)

\* Mutant: the DELETE has no WHERE clause.
ManualDelete_todas(p) ==
  /\ pc[p] = "manual_delete"
  /\ \/ /\ PorId(vendas_manuais, req[p].id) = {}
        /\ Responde(p, NaoEncontrado("Venda manual nao encontrada"), "release")
        /\ UNCHANGED <<vendas_manuais, falha>>
     \/ /\ PorId(vendas_manuais, req[p].id) # {}
        /\ vendas_manuais' = {}
        /\ Responde(p, Resposta(200, "Venda manual excluida com sucesso",
                                PorId(vendas_manuais, req[p].id)), "release")
        /\ UNCHANGED falha
  /\ UNCHANGED <<esquema, caixa_abertura, vendas, retiradas, caixa_fechamento, uuid, clients,
                 req, loc, pre>>

\* DELETE FROM vendas_manuais WHERE id = $1 RETURNING *
ManualDelete(p) ==
  /\ pc[p] = "manual_delete"
  /\ \/ /\ Falha500(p, "release")
        /\ UNCHANGED vendas_manuais
     \/ /\ SemTabela(p, "release")
        /\ UNCHANGED vendas_manuais
     \/ /\ esquema
        /\ PorId(vendas_manuais, req[p].id) = {}
        /\ Responde(p, NaoEncontrado("Venda manual nao encontrada"), "release")
        /\ UNCHANGED <<vendas_manuais, falha>>
     \/ /\ esquema
        /\ PorId(vendas_manuais, req[p].id) # {}
        /\ vendas_manuais' = vendas_manuais \ PorId(vendas_manuais, req[p].id)
        /\ Responde(p, Resposta(200, "Venda manual excluida com sucesso",
                                PorId(vendas_manuais, req[p].id)), "release")
        /\ UNCHANGED falha
  /\ UNCHANGED <<esquema, caixa_abertura, vendas, retiradas, caixa_fechamento, uuid, clients,
                 req, loc, pre>>

-----------------------------------------------------------------------------
(* POST /caixa/fechar: one transaction, BEGIN ... COMMIT / ROLLBACK.  The   *)
(* rows written inside the transaction are kept in loc[p].tx and reach the  *)
(* tables at COMMIT; the SELECTs read the committed tables (READ COMMITTED).*)

\* A statement of the transaction throws: control goes to the catch block.
Lanca(p) ==
  /\ falha' = [falha EXCEPT ![p] = TRUE]
  /\ Vai(p, "fechar_catch")

\* await client.query('BEGIN')
FecharBegin(p) ==
  /\ pc[p] = "fechar_begin"
  /\ \/ Lanca(p)
     \/ Vai(p, "fechar_select_caixa") /\ UNCHANGED falha
  /\ UNCHANGED <<tabelas, esquema, uuid, clients, req, loc, res, pre>>

\* SELECT * FROM caixa_abertura WHERE id = $1, and the rows.length === 0 check
FecharSelectCaixa(p) ==
  /\ pc[p] = "fechar_select_caixa"
  /\ \/ Lanca(p) /\ UNCHANGED loc
     \/ /\ ~esquema                        \* the table does not exist: it throws
        /\ Vai(p, "fechar_catch")
        /\ UNCHANGED <<loc, falha>>
     \/ /\ esquema
        /\ PorId(caixa_abertura, req[p].id) = {}
        /\ Vai(p, "fechar_rollback")
        /\ UNCHANGED <<loc, falha>>
     \/ /\ esquema
        /\ PorId(caixa_abertura, req[p].id) # {}
        /\ loc' = [loc EXCEPT ![p].caixa = PorId(caixa_abertura, req[p].id)]
        /\ Vai(p, "fechar_select_vendas")
        /\ UNCHANGED falha
  /\ UNCHANGED <<tabelas, esquema, uuid, clients, req, res, pre>>

\* await client.query('ROLLBACK'); return res.status(404)
FecharRollback(p) ==
  /\ pc[p] = "fechar_rollback"
  /\ \/ Lanca(p) /\ UNCHANGED res
     \/ /\ Responde(p, NaoEncontrado("Caixa nao encontrado"), "release")
        /\ UNCHANGED falha
  /\ UNCHANGED <<tabelas, esquema, uuid, clients, req, loc, pre>>

\* SELECT * FROM vendas WHERE caixa_abertura_id = $1
FecharSelectVendas(p) ==
  /\ pc[p] = "fechar_select_vendas"
  /\ \/ Lanca(p) /\ UNCHANGED loc
     \/ /\ loc' = [loc EXCEPT ![p].vendas = DoCaixa(vendas, req[p].id)]
        /\ Vai(p, "fechar_select_manuais")
        /\ UNCHANGED falha
  /\ UNCHANGED <<tabelas, esquema, uuid, clients, req, res, pre>>

\* SELECT * FROM vendas_manuais WHERE caixa_abertura_id = $1
FecharSelectManuais(p) ==
  /\ pc[p] = "fechar_select_manuais"
  /\ \/ Lanca(p) /\ UNCHANGED loc
     \/ /\ loc' = [loc EXCEPT ![p].manuais = DoCaixa(vendas_manuais, req[p].id)]
        /\ Vai(p, "fechar_select_retiradas")
        /\ UNCHANGED falha
  /\ UNCHANGED <<tabelas, esquema, uuid, clients, req, res, pre>>

\* SELECT * FROM retiradas WHERE caixa_abertura_id = $1
FecharSelectRetiradas(p) ==
  /\ pc[p] = "fechar_select_retiradas"
  /\ \/ Lanca(p) /\ UNCHANGED loc
     \/ /\ loc' = [loc EXCEPT ![p].retiradas = DoCaixa(retiradas, req[p].id)]
        /\ Vai(p, "fechar_insert")
        /\ UNCHANGED falha
  /\ UNCHANGED <<tabelas, esquema, uuid, clients, req, res, pre>>

\* The totals, gerarUUID and INSERT INTO caixa_fechamento ... RETURNING *
FecharInsert(p) ==
  /\ pc[p] = "fechar_insert"
  /\ \/ Lanca(p) /\ UNCHANGED <<loc, uuid>>
     \/ /\ LET caixa == CHOOSE c \in loc[p].caixa : TRUE      \* caixaResult.rows[0]
               row == Fechamento(gerarUUID("caixa_fechamento"), caixa, loc[p].vendas,
                                 loc[p].manuais, loc[p].retiradas, req[p].id)
           IN loc' = [loc EXCEPT ![p].fechamento = {row},
                                 ![p].tx.fechamentos = @ \cup {row}]
        /\ uuid' = [uuid EXCEPT !.caixa_fechamento = @ + 1]
        /\ Vai(p, "fechar_update")
        /\ UNCHANGED falha
  /\ UNCHANGED <<tabelas, esquema, clients, req, res, pre>>

\* UPDATE caixa_abertura SET status = 'FECHADO' WHERE id = $1: the statement
\* completes once no other transaction that updated the row is still open (it
\* waits for the row lock), and it can be rejected at any time, while it
\* waits included.
FecharUpdate(p) ==
  /\ pc[p] = "fechar_update"
  /\ \/ Lanca(p) /\ UNCHANGED loc
     \/ /\ \A q \in Procs \ {p} : req[p].id \notin loc[q].tx.fechados
        /\ loc' = [loc EXCEPT ![p].tx.fechados = @ \cup {req[p].id}]
        /\ Vai(p, "fechar_commit")
        /\ UNCHANGED falha
  /\ UNCHANGED <<tabelas, esquema, uuid, clients, req, res, pre>>

\* Mutant: the UPDATE flips the status, so closing a CLOSED session reopens it.
FechaCaixas_alterna(caixas, ids) ==
  { IF c.id \in ids
      THEN [c EXCEPT !.status = IF c.status = ABERTO THEN FECHADO ELSE ABERTO]
      ELSE c : c \in caixas }

\* The sessions table after the transaction's status updates are applied.
FechaCaixas(caixas, ids) ==
  { IF c.id \in ids THEN [c EXCEPT !.status = FECHADO] ELSE c : c \in caixas }

\* COMMIT makes the transaction's rows visible, all at once.
CommitFechamentos(tx) == caixa_fechamento \cup tx.fechamentos
\* Mutant: the UPDATE has no WHERE clause, every session is closed.
CommitCaixas_todos(tx) == FechaCaixas(caixa_abertura, { c.id : c \in caixa_abertura })

\* The sessions table once the transaction's UPDATE is committed.
CommitCaixas(tx) == FechaCaixas(caixa_abertura, tx.fechados)

\* await client.query('COMMIT'); res.json({ success: true, data: fechamentoResult.rows[0] })
FecharCommit(p) ==
  /\ pc[p] = "fechar_commit"
  /\ \/ /\ Lanca(p)
        /\ UNCHANGED <<caixa_fechamento, caixa_abertura, loc, res>>
     \/ /\ caixa_fechamento' = CommitFechamentos(loc[p].tx)
        /\ caixa_abertura' = CommitCaixas(loc[p].tx)
        /\ loc' = [loc EXCEPT ![p].tx = SemTx]
        /\ Responde(p, Resposta(200, "", loc[p].fechamento), "release")
        /\ UNCHANGED falha
  /\ UNCHANGED <<esquema, vendas, retiradas, vendas_manuais, uuid, clients, req, pre>>

\* Mutant: the catch block answers without rolling back, so the rows written
\* before the failure stay.
FecharCatch_semRollback(p) ==
  /\ pc[p] = "fechar_catch"
  /\ caixa_fechamento' = caixa_fechamento \cup loc[p].tx.fechamentos
  /\ loc' = [loc EXCEPT ![p].tx = SemTx]
  /\ Responde(p, Erro500, "release")
  /\ UNCHANGED <<esquema, caixa_abertura, vendas, retiradas, vendas_manuais, uuid, clients, req, pre,
                 falha>>

\* catch (error) { await client.query('ROLLBACK'); res.status(500) }: the
\* transaction's rows are dropped; when the ROLLBACK itself throws, the catch
\* block is left before res.status(500) and no response is sent.
FecharCatch(p) ==
  /\ pc[p] = "fechar_catch"
  /\ loc' = [loc EXCEPT ![p].tx = SemTx]
  /\ \/ Responde(p, Erro500, "release") /\ UNCHANGED falha
     \/ /\ falha' = [falha EXCEPT ![p] = TRUE]
        /\ Vai(p, "release")
        /\ UNCHANGED res
  /\ UNCHANGED <<tabelas, esquema, uuid, clients, req, pre>>

-----------------------------------------------------------------------------
(* POST /webhook/vendas: pool.query, no client held between statements *)

\* The payload check, then
\* SELECT * FROM caixa_abertura WHERE status = 'ABERTO' ORDER BY data_abertura DESC LIMIT 1
WebhookSelect(p) ==
  /\ pc[p] = "webhook_select"
  /\ \/ /\ PedidoInvalido(req[p].pedido)
        /\ Responde(p, Resposta(400, "Dados do pedido invalidos", {}), "fim")
        /\ UNCHANGED <<loc, falha>>
     \/ /\ ~PedidoInvalido(req[p].pedido)
        /\ \/ Falha500(p, "fim") /\ UNCHANGED loc
           \/ SemTabela(p, "fim") /\ UNCHANGED loc
           \/ /\ esquema
              /\ Abertos(caixa_abertura) = {}
              /\ Responde(p, Resposta(400, "Caixa fechado", {}), "fim")
              /\ UNCHANGED <<loc, falha>>
           \/ /\ esquema
              /\ \E c \in MaisRecente(Abertos(caixa_abertura)) :
                     loc' = [loc EXCEPT ![p].caixa = {c}]
              /\ Vai(p, "webhook_insert")
              /\ UNCHANGED <<res, falha>>
  /\ UNCHANGED <<tabelas, esquema, uuid, clients, req, pre>>

\* INSERT INTO vendas ... RETURNING *; PostgreSQL rejects the text that the
\* driver sends for an Invalid Date.
WebhookInsert(p) ==
  /\ pc[p] = "webhook_insert"
  /\ \/ /\ Falha500(p, "fim")
        /\ UNCHANGED <<vendas, uuid>>
     \/ /\ DataVenda(req[p].pedido) = "Invalid Date"
        /\ Responde(p, Erro500, "fim")
        /\ UNCHANGED <<vendas, uuid, falha>>
     \/ /\ DataVenda(req[p].pedido) # "Invalid Date"
        /\ LET caixaAberto == CHOOSE c \in loc[p].caixa : TRUE
               row == Venda(gerarUUID("vendas"), req[p].pedido, caixaAberto.id)
           IN /\ vendas' = vendas \cup {row}
              /\ Responde(p, Resposta(200, "Pedido processado com sucesso",
                                      {[venda_id |-> row.id]}), "fim")
        /\ uuid' = [uuid EXCEPT !.vendas = @ + 1]
        /\ UNCHANGED falha
  /\ UNCHANGED <<esquema, caixa_abertura, retiradas, caixa_fechamento, vendas_manuais, clients,
                 req, loc, pre>>

-----------------------------------------------------------------------------
(* Specifications *)

Passo(p) ==
  \/ Connect(p)
  \/ StatusSelect(p)
  \/ AbrirSelect(p)
  \/ AbrirInsert(p)
  \/ RetiradaInsert(p)
  \/ VendaUpdate(p)
  \/ FecharBegin(p)
  \/ FecharSelectCaixa(p)
  \/ FecharRollback(p)
  \/ FecharSelectVendas(p)
  \/ FecharSelectManuais(p)
  \/ FecharSelectRetiradas(p)
  \/ FecharInsert(p)
  \/ FecharUpdate(p)
  \/ FecharCommit(p)
  \/ FecharCatch(p)
  \/ ManualSelect(p)
  \/ ManualInsert(p)
  \/ ManualDelete(p)
  \/ WebhookSelect(p)
  \/ WebhookInsert(p)
  \/ Release(p)
  \/ Concluir(p)

\* No request is being served.
Ocioso == \A p \in Procs : pc[p] = "idle"

\* Requests served one at a time: a request arrives only when the previous
\* one has run to completion.
Chegada == Ocioso /\ Receber(1)

NextSeq ==
  \/ Chegada
  \/ \E p \in Procs : Passo(p)

Spec == Init /\ [][NextSeq]_vars

\* The requests of the concurrent specification: the operations that read or
\* write the status of a session, with well-formed inputs.
RequestsConc ==
  { r \in Requests :
      \/ r.op = "status"
      \/ r.op = "abrir" /\ r.valor # NULL
      \/ r.op = "fechar" /\ r.id # 0
      \/ r.op = "manual" /\ ~ManualInvalida(r) /\ r.id # 0 /\ r.tipo_pagamento = DINHEIRO
      \/ /\ r.op = "webhook"
         /\ ~PedidoInvalido(r.pedido)
         /\ r.pedido.produtos = ProdutosUm
         /\ r.pedido.tipo_pagamento = DINHEIRO }

\* Requests served concurrently: a request arrives, at the first free slot,
\* while the handlers of other requests are between two of their statements
\* (the model admits it while fewer than MaxLinhasConc identifiers have been
\* generated).
ChegadaConc(p) ==
  /\ Gerados < MaxLinhasConc
  /\ \A q \in Procs : q < p => pc[q] # "idle"
  /\ Receber(p)
  /\ req'[p] \in RequestsConc

PassoConc(p) ==
  \/ Connect(p)
  \/ StatusSelect(p)
  \/ AbrirSelect(p)
  \/ AbrirInsert(p)
  \/ FecharBegin(p)
  \/ FecharSelectCaixa(p)
  \/ FecharRollback(p)
  \/ FecharSelectVendas(p)
  \/ FecharSelectManuais(p)
  \/ FecharSelectRetiradas(p)
  \/ FecharInsert(p)
  \/ FecharUpdate(p)
  \/ FecharCommit(p)
  \/ FecharCatch(p)
  \/ ManualSelect(p)
  \/ ManualInsert(p)
  \/ WebhookSelect(p)
  \/ WebhookInsert(p)
  \/ Release(p)
  \/ Concluir(p)

NextConc ==
  \/ \E p \in Procs : ChegadaConc(p)
  \/ \E p \in Procs : PassoConc(p)

SpecConc == Init /\ [][NextConc]_vars

\* The module has just been loaded: initDB() was called and waits for the
\* pool.connect() of testarConexao; the tables exist already (created by an
\* earlier load) or not yet.  (Init is the state in which initDB has run to
\* its end with the tables in place and every client released.)
InitPool ==
  /\ caixa_abertura = {}
  /\ vendas = {}
  /\ retiradas = {}
  /\ caixa_fechamento = {}
  /\ vendas_manuais = {}
  /\ uuid = SemUuid
  /\ clients = 0
  /\ pc = [p \in Procs |-> IF p = 1 THEN "testar_connect" ELSE "idle"]
  /\ req = [p \in Procs |-> IF p = 1 THEN [SemReq EXCEPT !.op = "initDB"] ELSE SemReq]
  /\ loc = [p \in Procs |-> SemLoc]
  /\ res = [p \in Procs |-> SemRes]
  /\ pre = [p \in Procs |-> BDVazio]
  /\ falha = [p \in Procs |-> FALSE]
  /\ esquema \in BOOLEAN

\* Slot p is the first free one and no other request is being served; initDB,
\* called without await when the module loads, may still be running.
LivrePool(p) ==
  /\ \A q \in Procs : q < p => pc[q] # "idle"
  /\ \A q \in Procs : pc[q] = "idle" \/ req[q].op = "initDB"

\* The pool specification: module load, then requests, GET /health among
\* them, served one at a time while initDB runs and after it has ended (the
\* model admits the requests that write while fewer than MaxLinhasPool
\* identifiers have been generated).
ChegadaPool(p) == LivrePool(p) /\ Gerados < MaxLinhasPool /\ Receber(p)

ChegadaHealth(p) == LivrePool(p) /\ ReceberHealth(p)

PassoPool(p) ==
  \/ TestarConexaoConnect(p)
  \/ TestarConexaoQuery(p)
  \/ CriarTabelasConnect(p)
  \/ CriarTabelas(p)
  \/ CriarTabelasRollback(p)
  \/ Passo(p)

NextPool ==
  \/ \E p \in Procs : ChegadaPool(p)
  \/ \E p \in Procs : ChegadaHealth(p)
  \/ \E p \in Procs : PassoPool(p)

SpecPool == InitPool /\ [][NextPool]_vars

-----------------------------------------------------------------------------
(* Properties.  They are stated over the tables as they were when the       *)
(* request arrived (pre) and as they are when its handler has returned      *)
(* (pc = "fim"), with their own definitions of the sets and sums involved.  *)

\* The handler of slot p has returned from a request of kind op.
NoFim(p, op) == pc[p] = "fim" /\ req[p].op = op

\* The sessions of a set of sessions that have status OPEN.
SessoesAbertas(caixas) == { c \in caixas : c.status = "ABERTO" }

\* The rows of a table owned by session id.
Pertencem(rows, id) == { r \in rows : r.caixa_abertura_id = id }

\* The rows paid in cash.
PagasEmDinheiro(rows) == { r \in rows : r.tipo_pagamento = "DINHEIRO" }

RECURSIVE Total(_, _)
Total(rows, campo) ==
  IF rows = {} THEN 0
  ELSE LET r == CHOOSE x \in rows : TRUE IN r[campo] + Total(rows \ {r}, campo)

\* Every table but the sessions is as it was when the request of slot p arrived.
OutrasTabelasIguais(p) ==
  /\ vendas = pre[p].vendas
  /\ retiradas = pre[p].retiradas
  /\ caixa_fechamento = pre[p].caixa_fechamento
  /\ vendas_manuais = pre[p].vendas_manuais

\* C1: with requests served one at a time, at most one session has status
\* OPEN in every reachable state.
C1_NoMaximoUmAberto == Cardinality(SessoesAbertas(caixa_abertura)) <= 1

\* C1 witness: a second session was opened after the first one was closed.
C1_Witness ==
  /\ Cardinality(caixa_abertura) = 2
  /\ Cardinality(SessoesAbertas(caixa_abertura)) = 1
  /\ \E p \in Procs : NoFim(p, "abrir") /\ res[p].status = 200

\* C2: openSession fails with 400 and creates no session when a session is
\* OPEN; when none is OPEN (and an opening amount is given and the database
\* does not fail) it succeeds and adds exactly one session, OPEN, holding the
\* given amount, returned in the response.
C2_AbrirCaixa ==
  \A p \in Procs :
    NoFim(p, "abrir") =>
      /\ OutrasTabelasIguais(p)
      /\ SessoesAbertas(pre[p].caixa_abertura) # {} =>
           /\ caixa_abertura = pre[p].caixa_abertura
           /\ ~falha[p] => (res[p].status = 400 /\ res[p].message = "Ja existe um caixa aberto")
      /\ (SessoesAbertas(pre[p].caixa_abertura) = {} /\ req[p].valor # NULL /\ ~falha[p]) =>
           /\ res[p].status = 200
           /\ \E c \in caixa_abertura \ pre[p].caixa_abertura :
                /\ caixa_abertura = pre[p].caixa_abertura \cup {c}
                /\ c.status = "ABERTO"
                /\ c.valor_inicial = req[p].valor
                /\ \A d \in pre[p].caixa_abertura : d.id # c.id
                /\ res[p].data = {c}

\* C2 witness: an openSession succeeded after the only open session was closed.
C2_Witness ==
  \E p \in Procs :
    /\ NoFim(p, "abrir")
    /\ res[p].status = 200
    /\ pre[p].caixa_abertura # {}
    /\ SessoesAbertas(pre[p].caixa_abertura) = {}

\* C3: a successful closeSession persists exactly one Closing Summary, owned by
\* the session, with valor_abertura the opening amount, total_vendas the sum of
\* the session's sales and manual sales of every payment type, retiradas the
\* sum of its withdrawals and saldo_final = opening amount + its cash sales and
\* cash manual sales - its withdrawals; rows of other sessions count in none.
\* closeSession of an existing session succeeds unless the database fails.
C3_Fechamento ==
  \A p \in Procs :
    NoFim(p, "fechar") =>
      LET id == req[p].id
          cs == { c \in pre[p].caixa_abertura : c.id = id }
          vs == Pertencem(pre[p].vendas, id)
          ms == Pertencem(pre[p].vendas_manuais, id)
          rs == Pertencem(pre[p].retiradas, id)
          novos == caixa_fechamento \ pre[p].caixa_fechamento
      IN /\ (cs # {} /\ ~falha[p]) => res[p].status = 200
         /\ res[p].status = 200 =>
              /\ Cardinality(novos) = 1
              /\ res[p].data = novos
              /\ \A f \in novos : \A c \in cs :
                   /\ f.caixa_abertura_id = id
                   /\ f.valor_abertura = c.valor_inicial
                   /\ f.total_vendas = Total(vs, "valor_total") + Total(ms, "valor")
                   /\ f.retiradas = Total(rs, "valor")
                   /\ f.saldo_final =
                        c.valor_inicial
                        + Total(PagasEmDinheiro(vs), "valor_total")
                        + Total(PagasEmDinheiro(ms), "valor")
                        - Total(rs, "valor")

\* C3 witness: the session opened with 100.00 that holds one cash manual sale
\* of 30.00 and one withdrawal of 20.00 is closed with final balance 110.00.
C3_Witness ==
  \E p \in Procs :
    /\ NoFim(p, "fechar")
    /\ res[p].status = 200
    /\ \E m \in vendas_manuais : m.caixa_abertura_id = req[p].id /\ m.tipo_pagamento = "DINHEIRO"
    /\ \E r \in retiradas : r.caixa_abertura_id = req[p].id
    /\ \E f \in caixa_fechamento \ pre[p].caixa_fechamento :
         /\ f.valor_abertura = 10000
         /\ f.total_vendas = 3000
         /\ f.retiradas = 2000
         /\ f.saldo_final = 11000

\* C4: closeSession is atomic.  In every state a session is CLOSED exactly
\* when a Closing Summary of it is in the table, and as long as a closeSession
\* call has not answered 200 (it is still running, or a step of it failed, or
\* the session is unknown) the tables equal the tables before the call.
C4_FechamentoAtomico ==
  /\ \A c \in caixa_abertura :
       c.status = "FECHADO" <=> Pertencem(caixa_fechamento, c.id) # {}
  /\ \A p \in Procs :
       (req[p].op = "fechar" /\ res[p].status # 200) => BD = pre[p]

\* C4 witness: a closeSession call failed after its INSERT of the summary (the
\* identifier of the summary was generated) and its handler has returned.
C4_Witness ==
  \E p \in Procs :
    /\ NoFim(p, "fechar")
    /\ falha[p]
    /\ loc[p].fechamento # {}
    /\ caixa_fechamento # {}

\* C5: closeSession with an identifier that matches no session leaves every
\* table unchanged and, unless the database fails, answers 404.
C5_FecharDesconhecido ==
  \A p \in Procs :
    (NoFim(p, "fechar") /\ \A c \in pre[p].caixa_abertura : c.id # req[p].id) =>
      /\ BD = pre[p]
      /\ ~falha[p] => (res[p].status = 404 /\ res[p].message = "Caixa nao encontrado")

\* C5 witness: a closeSession of an unknown session was answered 404 while the
\* tables hold sessions and sales.
C5_Witness ==
  \E p \in Procs :
    /\ NoFim(p, "fechar")
    /\ res[p].status = 404
    /\ caixa_abertura # {}
    /\ vendas # {}

\* C6: no session owns more than one Closing Summary, and closeSession of a
\* session that is already CLOSED fails with 404 and writes nothing.
C6_UmFechamentoPorCaixa ==
  /\ \A c \in caixa_abertura : Cardinality(Pertencem(caixa_fechamento, c.id)) <= 1
  /\ \A p \in Procs :
       (/\ NoFim(p, "fechar")
        /\ \E c \in pre[p].caixa_abertura : c.id = req[p].id /\ c.status = "FECHADO") =>
         /\ BD = pre[p]
         /\ ~falha[p] => res[p].status = 404

\* C7: every stored Closing Summary's totals equal the sums over the sales,
\* manual sales and withdrawals its session owns now.
C7_FechamentoConfere ==
  \A f \in caixa_fechamento : \A c \in caixa_abertura :
    c.id = f.caixa_abertura_id =>
      LET vs == Pertencem(vendas, c.id)
          ms == Pertencem(vendas_manuais, c.id)
          rs == Pertencem(retiradas, c.id)
      IN /\ f.total_vendas = Total(vs, "valor_total") + Total(ms, "valor")
         /\ f.retiradas = Total(rs, "valor")
         /\ f.saldo_final =
              c.valor_inicial + Total(PagasEmDinheiro(vs), "valor_total")
              + Total(PagasEmDinheiro(ms), "valor") - Total(rs, "valor")

\* A payload with a numeric total and a non-empty list of products.
PedidoBemFormado(pedido) ==
  /\ pedido.valor_total # NULL
  /\ pedido.valor_total > 0
  /\ pedido.produtos.tipo = "lista"
  /\ Len(pedido.produtos.itens) > 0

\* C8: ingestOrder with a valid payload while no session is OPEN changes no
\* table and, unless the database fails, answers 400 'register closed'.
C8_WebhookCaixaFechado ==
  \A p \in Procs :
    (/\ NoFim(p, "webhook")
     /\ PedidoBemFormado(req[p].pedido)
     /\ SessoesAbertas(pre[p].caixa_abertura) = {}) =>
      /\ BD = pre[p]
      /\ ~falha[p] => (res[p].status = 400 /\ res[p].message = "Caixa fechado")

\* C8 witness: a valid order was refused with 'register closed' while the only
\* session is CLOSED.
C8_Witness ==
  \E p \in Procs :
    /\ NoFim(p, "webhook")
    /\ PedidoBemFormado(req[p].pedido)
    /\ res[p].status = 400
    /\ res[p].message = "Caixa fechado"
    /\ caixa_abertura # {}

\* C9: ingestOrder with a well-formed payload while a session is OPEN answers
\* 200 with the identifier of exactly one new Sale, owned by the open session,
\* with payment type 'PENDENTE' and order type 'outro' when none is supplied,
\* and changes nothing else (unless the database fails).
C9_WebhookInsereVenda ==
  \A p \in Procs :
    (/\ NoFim(p, "webhook")
     /\ PedidoBemFormado(req[p].pedido)
     /\ SessoesAbertas(pre[p].caixa_abertura) # {}
     /\ ~falha[p]) =>
      /\ res[p].status = 200
      /\ caixa_abertura = pre[p].caixa_abertura
      /\ retiradas = pre[p].retiradas
      /\ caixa_fechamento = pre[p].caixa_fechamento
      /\ vendas_manuais = pre[p].vendas_manuais
      /\ \E v \in vendas \ pre[p].vendas :
           /\ vendas = pre[p].vendas \cup {v}
           /\ \A c \in SessoesAbertas(pre[p].caixa_abertura) : v.caixa_abertura_id = c.id
           /\ v.valor_total = req[p].pedido.valor_total
           /\ v.tipo_pagamento =
                (IF req[p].pedido.tipo_pagamento = NULLT THEN "PENDENTE"
                 ELSE req[p].pedido.tipo_pagamento)
           /\ v.dados_pedido.tipo_pedido =
                (IF req[p].pedido.tipo_pedido = NULLT THEN "outro"
                 ELSE req[p].pedido.tipo_pedido)
           /\ res[p].data = {[venda_id |-> v.id]}

\* The payloads C10 names: total absent, or products absent, not a list, or an
\* empty list.
PedidoRecusavel(pedido) ==
  \/ pedido.valor_total = NULL
  \/ pedido.produtos.tipo # "lista"
  \/ pedido.produtos.itens = <<>>

\* C10: ingestOrder writes nothing and (unless the database fails) answers 400
\* whenever the total is absent or the products field is absent, not a list or
\* an empty list, whether or not a session is OPEN.
C10_WebhookValidacao ==
  \A p \in Procs :
    (NoFim(p, "webhook") /\ PedidoRecusavel(req[p].pedido)) =>
      /\ BD = pre[p]
      /\ ~falha[p] => res[p].status = 400

\* C11 as stated: recordManualSale answers the validation error and writes
\* nothing when the payment type, the value or the session identifier is
\* missing; otherwise it answers the conflict error and writes nothing when the
\* identifier names no session with status OPEN; otherwise it adds exactly one
\* Manual Sale owned by that session and changes nothing else.  (Every given
\* value, 0 included, counts as not missing.)
C11_Original ==
  \A p \in Procs :
    NoFim(p, "manual") =>
      LET r == req[p]
          ausente == r.tipo_pagamento = "NULL" \/ r.valor = NULL \/ r.id = NULL
          aberta == \E c \in pre[p].caixa_abertura : c.id = r.id /\ c.status = "ABERTO"
      IN /\ res[p].status # 200 => BD = pre[p]
         /\ (ausente /\ ~falha[p]) =>
              (res[p].status = 400 /\ res[p].message = "campos obrigatorios")
         /\ (~ausente /\ ~aberta /\ ~falha[p]) =>
              (res[p].status = 400 /\ res[p].message = "Caixa nao encontrado ou ja fechado")
         /\ (~ausente /\ aberta /\ ~falha[p]) =>
              /\ res[p].status = 200
              /\ \E m \in vendas_manuais \ pre[p].vendas_manuais :
                   /\ vendas_manuais = pre[p].vendas_manuais \cup {m}
                   /\ m.caixa_abertura_id = r.id

\* C11, amended: recordManualSale writes nothing and (unless the connection
\* fails) answers 400 (required fields) when the payment type, the value or the
\* session identifier is missing or falsy (a value of 0, a payment type that is
\* null or the empty text); otherwise it writes nothing and (unless the
\* database fails) answers 400 (session not found or closed) when the
\* identifier names no session with status OPEN; otherwise (no database
\* failure) it answers 200 and adds exactly one Manual Sale, owned by that
\* session and holding the given payment type and value, and changes nothing
\* else.
C11_VendaManual ==
  \A p \in Procs :
    NoFim(p, "manual") =>
      LET r == req[p]
          ausente == \/ r.tipo_pagamento \in {"NULL", "JSON null", ""}
                     \/ r.valor = NULL \/ r.valor = 0
                     \/ r.id = NULL
          aberta == \E c \in pre[p].caixa_abertura : c.id = r.id /\ c.status = "ABERTO"
      IN /\ res[p].status # 200 => BD = pre[p]
         /\ (ausente /\ ~falha[p]) =>
              (res[p].status = 400 /\ res[p].message = "campos obrigatorios")
         /\ (~ausente /\ ~aberta /\ ~falha[p]) =>
              (res[p].status = 400 /\ res[p].message = "Caixa nao encontrado ou ja fechado")
         /\ (~ausente /\ aberta /\ ~falha[p]) =>
              /\ res[p].status = 200
              /\ caixa_abertura = pre[p].caixa_abertura
              /\ vendas = pre[p].vendas
              /\ retiradas = pre[p].retiradas
              /\ caixa_fechamento = pre[p].caixa_fechamento
              /\ \E m \in vendas_manuais \ pre[p].vendas_manuais :
                   /\ vendas_manuais = pre[p].vendas_manuais \cup {m}
                   /\ \A n \in pre[p].vendas_manuais : n.id # m.id
                   /\ m.caixa_abertura_id = r.id
                   /\ m.tipo_pagamento = r.tipo_pagamento
                   /\ m.valor = r.valor
                   /\ res[p].data = {m}

\* C11 witness: a manual sale of value 0 for the open session, which already
\* holds a recorded manual sale, was answered with the validation error.
C11_Witness ==
  \E p \in Procs :
    /\ NoFim(p, "manual")
    /\ req[p].valor = 0
    /\ req[p].tipo_pagamento = "DINHEIRO"
    /\ res[p].status = 400
    /\ res[p].message = "campos obrigatorios"
    /\ \E c \in pre[p].caixa_abertura : c.id = req[p].id /\ c.status = "ABERTO"
    /\ \E m \in vendas_manuais : m.caixa_abertura_id = req[p].id

\* C12: recordWithdrawal for an existing session, OPEN or CLOSED, answers 200
\* (unless the database fails) and adds exactly one Withdrawal, owned by that
\* session, changing no other record; and no step of any operation ever
\* removes or changes a Withdrawal.
C12_Retirada ==
  /\ [](\A p \in Procs :
          (/\ NoFim(p, "retirada")
           /\ \E c \in pre[p].caixa_abertura : c.id = req[p].id
           /\ ~falha[p]) =>
            /\ res[p].status = 200
            /\ caixa_abertura = pre[p].caixa_abertura
            /\ vendas = pre[p].vendas
            /\ caixa_fechamento = pre[p].caixa_fechamento
            /\ vendas_manuais = pre[p].vendas_manuais
            /\ \E w \in retiradas \ pre[p].retiradas :
                 /\ retiradas = pre[p].retiradas \cup {w}
                 /\ \A x \in pre[p].retiradas : x.id # w.id
                 /\ w.caixa_abertura_id = req[p].id
                 /\ w.valor = req[p].valor
                 /\ res[p].data = {w})
  /\ [][retiradas \subseteq retiradas']_vars

\* C12 witness: a withdrawal was recorded for a session that is CLOSED.
C12_Witness ==
  \E p \in Procs :
    /\ NoFim(p, "retirada")
    /\ res[p].status = 200
    /\ \E c \in pre[p].caixa_abertura : c.id = req[p].id /\ c.status = "FECHADO"
    /\ \E w \in retiradas \ pre[p].retiradas : w.caixa_abertura_id = req[p].id

\* C13: deleteManualSale with an identifier of no Manual Sale leaves every
\* table unchanged and (unless the database fails) answers 404; with the
\* identifier of a Manual Sale it removes that row and no other, returns the
\* row as it was, and leaves every other table unchanged, whether the owning
\* session is OPEN or CLOSED.
C13_ExcluirVendaManual ==
  \A p \in Procs :
    NoFim(p, "manual_del") =>
      LET alvo == { m \in pre[p].vendas_manuais : m.id = req[p].id }
      IN /\ caixa_abertura = pre[p].caixa_abertura
         /\ vendas = pre[p].vendas
         /\ retiradas = pre[p].retiradas
         /\ caixa_fechamento = pre[p].caixa_fechamento
         /\ alvo = {} =>
              /\ vendas_manuais = pre[p].vendas_manuais
              /\ ~falha[p] => res[p].status = 404
         /\ (alvo # {} /\ ~falha[p]) =>
              /\ res[p].status = 200
              /\ Cardinality(alvo) = 1
              /\ vendas_manuais = pre[p].vendas_manuais \ alvo
              /\ res[p].data = alvo

\* C13 witness: one of the two manual sales of a CLOSED session was deleted.
C13_Witness ==
  \E p \in Procs :
    /\ NoFim(p, "manual_del")
    /\ res[p].status = 200
    /\ vendas_manuais # {}
    /\ \E m \in res[p].data : \E c \in caixa_abertura :
         c.id = m.caixa_abertura_id /\ c.status = "FECHADO"

\* C14: updateSalePaymentType with an identifier of no Sale changes no table
\* and (unless the database fails) answers 404; otherwise it changes the
\* payment type of that one Sale and nothing else: the Sale keeps its total,
\* its order payload and its owning session, and every other row of every
\* table is as before.  No step of any operation removes a Sale or changes the
\* total or the owning session of a Sale.
C14_AtualizarVenda ==
  /\ [](\A p \in Procs :
          NoFim(p, "venda_put") =>
            LET alvo == { v \in pre[p].vendas : v.id = req[p].id }
            IN /\ caixa_abertura = pre[p].caixa_abertura
               /\ retiradas = pre[p].retiradas
               /\ caixa_fechamento = pre[p].caixa_fechamento
               /\ vendas_manuais = pre[p].vendas_manuais
               /\ alvo = {} =>
                    /\ vendas = pre[p].vendas
                    /\ ~falha[p] => res[p].status = 404
               /\ (alvo # {} /\ ~falha[p]) =>
                    /\ res[p].status = 200
                    /\ pre[p].vendas \ alvo \subseteq vendas
                    /\ \E w \in vendas :
                         /\ vendas = (pre[p].vendas \ alvo) \cup {w}
                         /\ w.tipo_pagamento = req[p].tipo_pagamento
                         /\ res[p].data = {w}
                         /\ \A v \in alvo :
                              /\ w.id = v.id
                              /\ w.valor_total = v.valor_total
                              /\ w.dados_pedido = v.dados_pedido
                              /\ w.caixa_abertura_id = v.caixa_abertura_id)
  /\ [][\A v \in vendas : \E w \in vendas' :
           /\ w.id = v.id
           /\ w.valor_total = v.valor_total
           /\ w.caixa_abertura_id = v.caixa_abertura_id]_vars

\* C14 witness: the payment type of one of two sales was changed from
\* 'PENDENTE' to 'DINHEIRO'.
C14_Witness ==
  \E p \in Procs :
    /\ NoFim(p, "venda_put")
    /\ res[p].status = 200
    /\ Cardinality(vendas) = 2
    /\ req[p].tipo_pagamento = "DINHEIRO"
    /\ \E v \in pre[p].vendas : v.id = req[p].id /\ v.tipo_pagamento = "PENDENTE"
    /\ \E v \in vendas : v.id # req[p].id /\ v.tipo_pagamento = "PENDENTE"

\* C15: every request whose handler has returned was answered, and a request
\* that met a database failure was answered 500, closeSession with a failing
\* ROLLBACK included.
C15_SempreResponde ==
  \A p \in Procs :
    pc[p] = "fim" =>
      /\ res[p].status # 0
      /\ falha[p] => res[p].status = 500

\* C16: openSession does not check again when it inserts.  The INSERT step of a
\* request that passed the check, whenever it runs without a database failure,
\* answers 200 and adds one more OPEN session to whatever sessions are OPEN at
\* that moment; so two requests that both passed the check before either
\* inserted both succeed (the witness: two OPEN sessions).
C16_AbrirNaoAtomico ==
  [][\A p \in Procs :
       (/\ pc[p] = "abrir_insert"
        /\ pc'[p] # "abrir_insert"
        /\ req[p].valor # NULL
        /\ ~falha'[p]) =>
         /\ res'[p].status = 200
         /\ \E c \in caixa_abertura' \ caixa_abertura :
              /\ c.status = "ABERTO"
              /\ res'[p].data = {c}
              /\ caixa_abertura' = caixa_abertura \cup {c}
              /\ SessoesAbertas(caixa_abertura') = SessoesAbertas(caixa_abertura) \cup {c}]_vars

\* C16 witness: two openSession requests that both arrived while no session
\* was OPEN have both been answered 200, and two sessions are OPEN.
C16_Witness ==
  \E p, q \in Procs :
    /\ p # q
    /\ NoFim(p, "abrir") /\ NoFim(q, "abrir")
    /\ res[p].status = 200 /\ res[q].status = 200
    /\ SessoesAbertas(pre[p].caixa_abertura) = {}
    /\ SessoesAbertas(pre[q].caixa_abertura) = {}
    /\ res[p].data # res[q].data
    /\ Cardinality(SessoesAbertas(caixa_abertura)) = 2

\* C17: under every interleaving, each step that adds a Sale or a Manual Sale
\* adds it to a session whose status is OPEN at that step: none is added to a
\* session whose close has committed.
C17_InsereSoEmAberto ==
  [][/\ \A v \in vendas' :
          (\A u \in vendas : u.id # v.id) =>
            \E c \in SessoesAbertas(caixa_abertura) : c.id = v.caixa_abertura_id
     /\ \A m \in vendas_manuais' :
          (\A n \in vendas_manuais : n.id # m.id) =>
            \E c \in SessoesAbertas(caixa_abertura) : c.id = m.caixa_abertura_id]_vars

\* C18: in every step of every operation each session stays in the table with
\* the same opening amount; its status changes at most from OPEN to CLOSED,
\* never from CLOSED to OPEN, and only in the COMMIT step of a closeSession
\* request that names the session.
C18_CicloDeVida ==
  [][\A c \in caixa_abertura :
       \E d \in caixa_abertura' :
         /\ d.id = c.id
         /\ d.valor_inicial = c.valor_inicial
         /\ c.status = "FECHADO" => d.status = "FECHADO"
         /\ d.status # c.status =>
              /\ c.status = "ABERTO" /\ d.status = "FECHADO"
              /\ \E p \in Procs :
                   /\ req[p].op = "fechar"
                   /\ req[p].id = c.id
                   /\ pc[p] = "fechar_commit"
                   /\ pc'[p] = "release"]_vars

\* C18 witness: a closeSession of a session that was already CLOSED has
\* committed, and the session is still CLOSED.
C18_Witness ==
  \E p \in Procs :
    /\ NoFim(p, "fechar")
    /\ res[p].status = 200
    /\ \E c \in pre[p].caixa_abertura : c.id = req[p].id /\ c.status = "FECHADO"
    /\ \E c \in caixa_abertura : c.id = req[p].id /\ c.status = "FECHADO"
    /\ SessoesAbertas(caixa_abertura) # {}

\* The OPEN session with the latest opening timestamp, as a set (empty: none).
UltimaAberta(caixas) ==
  { c \in SessoesAbertas(caixas) :
      \A d \in SessoesAbertas(caixas) : d.data_abertura <= c.data_abertura }

\* C19: the query step of getOpenSession (unless the database fails) answers
\* caixaAberto = true exactly when some session is OPEN, with caixaAtual the
\* OPEN session opened last (none when no session is OPEN); the query step of
\* ingestOrder selects that same session, and the Sale it then inserts is
\* owned by the session it selected.
C19_CaixaAtual ==
  [][\A p \in Procs :
       /\ (pc[p] = "status_select" /\ pc'[p] # "status_select" /\ ~falha'[p]) =>
            /\ res'[p].status = 200
            /\ res'[p].data =
                 {[caixaAberto |-> SessoesAbertas(caixa_abertura) # {},
                   caixaAtual |-> UltimaAberta(caixa_abertura)]}
            /\ Cardinality(UltimaAberta(caixa_abertura)) <= 1
       /\ (pc[p] = "webhook_select" /\ pc'[p] = "webhook_insert") =>
            /\ loc'[p].caixa = UltimaAberta(caixa_abertura)
            /\ Cardinality(UltimaAberta(caixa_abertura)) = 1
       /\ (pc[p] = "webhook_insert" /\ res'[p].status = 200) =>
            \E v \in vendas' \ vendas : \E c \in loc[p].caixa :
              /\ vendas' = vendas \cup {v}
              /\ v.caixa_abertura_id = c.id]_vars

\* C19 witness: with two sessions OPEN, getOpenSession returned the one opened
\* last and ingestOrder added a Sale owned by that same session.
C19_Witness ==
  \E p, q \in Procs :
    /\ NoFim(p, "status") /\ NoFim(q, "webhook")
    /\ res[p].status = 200 /\ res[q].status = 200
    /\ Cardinality(SessoesAbertas(caixa_abertura)) = 2
    /\ \E x \in res[p].data : \E c \in x.caixaAtual : \E v \in vendas \ pre[q].vendas :
         /\ x.caixaAberto
         /\ v.caixa_abertura_id = c.id
         /\ \E d \in SessoesAbertas(caixa_abertura) : d.data_abertura < c.data_abertura

\* C20: a closeSession answered 200 has added one Closing Summary, owned by the
\* session it names, and set that session's status to CLOSED, and nothing
\* else: every Sale, Manual Sale and Withdrawal, every other session and
\* every Closing Summary that existed are as they were.
C20_FechamentoSoAlteraSessao ==
  \A p \in Procs :
    (NoFim(p, "fechar") /\ res[p].status = 200) =>
      /\ vendas = pre[p].vendas
      /\ vendas_manuais = pre[p].vendas_manuais
      /\ retiradas = pre[p].retiradas
      /\ pre[p].caixa_fechamento \subseteq caixa_fechamento
      /\ \E f \in caixa_fechamento \ pre[p].caixa_fechamento :
           /\ caixa_fechamento = pre[p].caixa_fechamento \cup {f}
           /\ f.caixa_abertura_id = req[p].id
           /\ \A g \in pre[p].caixa_fechamento : g.id # f.id
      /\ { c \in caixa_abertura : c.id # req[p].id } =
           { c \in pre[p].caixa_abertura : c.id # req[p].id }
      /\ \E c \in pre[p].caixa_abertura :
           /\ c.id = req[p].id
           /\ { d \in caixa_abertura : d.id = req[p].id } = {[c EXCEPT !.status = "FECHADO"]}

\* C20 witness: the closeSession of an OPEN session succeeded while the tables
\* hold another session, its Closing Summary and a Sale.
C20_Witness ==
  \E p \in Procs :
    /\ NoFim(p, "fechar")
    /\ res[p].status = 200
    /\ vendas # {}
    /\ pre[p].caixa_fechamento # {}
    /\ \E c \in pre[p].caixa_abertura : c.id = req[p].id /\ c.status = "ABERTO"
    /\ \E c \in caixa_abertura : c.id # req[p].id

\* C21: every handler that takes a client from the pool gives it back on every
\* path: never more than the pool size of 20 are checked out, and none is
\* checked out when no handler is running.
C21_ClientesDevolvidos ==
  /\ clients <= 20
  /\ (\A p \in Procs : pc[p] \in {"idle", "fim"}) => clients = 0

====
